---- MODULE Spec2Model ----
(***************************************************************************)
(* A model of GoodForm 0.5 (src/good_form.js): the validation registry,    *)
(* the dispatcher Validate.Queue, the entry points Validate.Name and       *)
(* Validate.All, the flush Validate.Run, the Ajax round trip               *)
(* Validate.Remote with its ready-state events, and the presenter          *)
(* Validate.Effect.                                                        *)
(***************************************************************************)
EXTENDS Integers, Sequences, FiniteSets, TLC

(***************************************************************************)
(* Bounds of the model.                                                    *)
(***************************************************************************)
\* number of XMLHttpRequest objects that have not completed, at any time
MaxRequests == 1
\* number of deferred Validate calls between two flushes
MaxDeferred == 2
\* number of times the user changes a value
MaxInputs == 1

(***************************************************************************)
(* JavaScript values.  A value is tagged with its type so that the         *)
(* language's truthiness, == undefined and constructor tests can be        *)
(* computed as the interpreter computes them.                              *)
(***************************************************************************)
Undef == [t |-> "undefined"]
Null == [t |-> "null"]
Str(s) == [t |-> "string", s |-> s]
Arr(a) == [t |-> "array", a |-> a]
Bool(b) == [t |-> "boolean", b |-> b]

\* ToBoolean: what `if (x)`, `!x` and `x || y` test
Truthy(x) ==
    CASE x.t = "undefined" -> FALSE
      [] x.t = "null" -> FALSE
      [] x.t = "string" -> x.s /= ""
      [] x.t = "boolean" -> x.b
      [] OTHER -> TRUE

\* x == undefined (loose equality: true of undefined and of null only)
LooseUndefined(x) == x.t \in {"undefined", "null"}

\* x || y
Or(x, y) == IF Truthy(x) THEN x ELSE y

(***************************************************************************)
(* JavaScript objects used as maps keep their keys in insertion order, and *)
(* for (name in obj) visits them in that order: an object is a sequence of *)
(* [k, v] entries with distinct keys.                                      *)
(***************************************************************************)
Keys(m) == [i \in 1..Len(m) |-> m[i].k]
Has(m, k) == \E i \in 1..Len(m) : m[i].k = k
\* m[k]: undefined for a key that is absent
Get(m, k) == IF Has(m, k) THEN m[CHOOSE i \in 1..Len(m) : m[i].k = k].v ELSE Undef
\* m[k] = v: an existing key keeps its position, a new key goes last
Put(m, k, v) ==
    IF Has(m, k)
    THEN [i \in 1..Len(m) |-> IF m[i].k = k THEN [k |-> k, v |-> v] ELSE m[i]]
    ELSE Append(m, [k |-> k, v |-> v])

(***************************************************************************)
(* The page: form items by name.  dom[name] is the list of values that     *)
(* getValuesByName collects from the elements of that name (lines 746-754);*)
(* it is empty when no element of the name gives a value (unchecked boxes, *)
(* elements of another form than the scope).                               *)
(***************************************************************************)
Fields == {"login", "email"}

VARIABLES
    local,          \* GoodForm.local: name -> list of Validation objects
    remote,         \* GoodForm.remote
    validMessages,  \* GoodForm.validMessages
    dom,            \* the values of the form items, by name
    queue,          \* GoodForm.Validate.queue
    response,       \* GoodForm.Validate.response
    xhr,            \* the XMLHttpRequest objects created by Validate.Remote
    call,           \* the step just taken and what it returned
    ndefer,         \* the deferred Validate calls made since the last flush
    ninput,         \* the changes of value made so far
    effects,        \* the Validate.Effect objects created by the step just taken
    evals           \* the validate() calls made by Validate.Queue in the step just taken

vars == <<local, remote, validMessages, dom, queue, response, xhr,
          call, ndefer, ninput, effects, evals>>

\* GoodForm.validMessage and GoodForm.loadingMessage
validMessage == ""
loadingMessage == ""

\* GoodForm.defaultErrorMessages
defaultErrorMessages ==
    [blank |-> "can't be blank",
     confirmation |-> "doesn't match",
     tooLong |-> "is too long (maximum is %d characters)",
     tooShort |-> "is too short (minimum is %d characters)",
     wrongLength |-> "is the wrong length (should be %d characters)"]

(***************************************************************************)
(* Helpers.                                                                *)
(***************************************************************************)
\* the strings /^\s*$/ matches, among the strings of the model
IsBlank(s) == s \in {"", " "}

\* /^\s*$/.test(value): the value is converted to a string first; an array
\* of two or more values converts to a string that holds a comma
RegexBlank(value) ==
    CASE value.t = "string" -> IsBlank(value.s)
      [] value.t = "array" -> Len(value.a) = 0 \/ (Len(value.a) = 1 /\ IsBlank(value.a[1]))
      [] OTHER -> FALSE

\* value == "" (loose equality with the empty string)
LooseEmpty(value) ==
    CASE value.t = "string" -> value.s = ""
      [] value.t = "array" -> Len(value.a) = 0 \/ (Len(value.a) = 1 /\ value.a[1] = "")
      [] OTHER -> FALSE

getValuesByName(name) ==
    LET values == IF name \in DOMAIN dom THEN dom[name] ELSE <<>>
    IN  IF Len(values) > 1 THEN Arr(values)
        ELSE IF Len(values) = 1 THEN Str(values[1])
        ELSE Undef

\* parseResponse testing !response instead of response == undefined
parseResponseFalsy(resp) ==
    IF ~Truthy(resp) THEN "loading"
    ELSE IF resp.t = "array" /\ Len(resp.a) > 0 THEN "error"
    ELSE "valid"

parseResponse(resp) ==
    IF LooseUndefined(resp) THEN "loading"
    ELSE IF resp.t = "array" /\ Len(resp.a) > 0 THEN "error"
    ELSE "valid"

\* encodeURIComponent, on the strings of the model
encodeURIComponent(s) == IF s = " " THEN "%20" ELSE s

RECURSIVE join(_)
\* Array.prototype.join(", ")
join(a) ==
    IF Len(a) = 0 THEN ""
    ELSE IF Len(a) = 1 THEN a[1]
    ELSE a[1] \o ", " \o join(Tail(a))

\* the string a value converts to when it is assigned to innerHTML
ToHtml(x) ==
    CASE x.t = "string" -> x.s
      [] x.t = "array" -> join(x.a)
      [] x.t = "boolean" -> IF x.b THEN "true" ELSE "false"
      [] OTHER -> x.t

(***************************************************************************)
(* Validation objects.  A rule is a record of the options copied onto the  *)
(* object (line 140) and of the properties the named validation sets on it *)
(* afterwards; an option that was not given is "none" for a function, None *)
(* for a number, "" for a string.                                          *)
(***************************************************************************)
None == -1

\* orig is the name of v.orig; closure is the name of the orig of the object
\* that the variable v of Validates.Confirmation holds when validate runs
NoOptions ==
    [message |-> "", allowBlank |-> FALSE, allowNull |-> FALSE,
     if |-> "none", unless |-> "none",
     minimum |-> None, maximum |-> None, include |-> <<>>,
     wrongLength |-> "", tooShort |-> "", tooLong |-> "",
     orig |-> "", closure |-> ""]

\* the options object merged over the defaults
Options(o) == [f \in DOMAIN NoOptions |-> IF f \in DOMAIN o THEN o[f] ELSE NoOptions[f]]

\* the list of Validation objects registered for a name (none: the empty list)
RulesOf(reg, name) == IF Has(reg, name) THEN Get(reg, name) ELSE <<>>

RECURSIVE Register(_, _, _)
\* the object put at the head of the list of the first name
RegisterFront(reg, names, v) ==
    Put(reg, Head(names), <<v>> \o RulesOf(reg, Head(names)))

\* lines 148-152: push the one object onto the list of every name
Register(reg, names, v) ==
    IF Len(names) = 0 THEN reg
    ELSE Register(Put(reg, Head(names), Append(RulesOf(reg, Head(names)), v)),
                  Tail(names), v)

\* new GoodForm.Validation(args, defaultMessage, remote), on the registries
\* g.local and g.remote; g.n counts the objects created, and the count names
\* the object (its identity)
Validation(g, kind, names, o, defaultMessage, isRemote) ==
    LET opt == Options(o)
        v == [id |-> g.n + 1, kind |-> kind] @@
             [opt EXCEPT !.message =
                 IF defaultMessage /= "" /\ "message" \notin DOMAIN o
                 THEN defaultErrorMessages[defaultMessage] ELSE @]
    IN  IF isRemote THEN [g EXCEPT !.remote = Register(@, names, v), !.n = @ + 1]
        ELSE [g EXCEPT !.local = Register(@, names, v), !.n = @ + 1]

\* Validates.Presence(names..., options)
Presence(g, names, o) == Validation(g, "Presence", names, o, "blank", FALSE)

\* lines 357-361 of Validates.Length: the bounds that the options within
\* and is give (an is of 0 is not truthy and gives none)
LengthBounds(o) ==
    IF "within" \in DOMAIN o
    THEN [minimum |-> o.within[1], maximum |-> o.within[Len(o.within)]] @@ o
    ELSE IF "is" \in DOMAIN o /\ o.is /= 0
    THEN [minimum |-> o.is, maximum |-> o.is] @@ o
    ELSE o

\* Validates.Length(names..., options)
Length(g, names, o) == Validation(g, "Length", names, LengthBounds(o), "", FALSE)

\* Validates.Ajax(names..., options)
Ajax(g, names, o) == Validation(g, "Ajax", names, o, "", TRUE)

\* message.replace(/%d/g, n) on the default messages; a custom message of the
\* model holds no %d
ReplaceD(kind, n) ==
    LET d == IF n = None THEN "undefined" ELSE ToString(n)
    IN  CASE kind = "wrongLength" -> "is the wrong length (should be " \o d \o " characters)"
          [] kind = "tooShort" -> "is too short (minimum is " \o d \o " characters)"
          [] kind = "tooLong" -> "is too long (maximum is " \o d \o " characters)"

\* value.length
LengthOf(value) ==
    CASE value.t = "string" -> Len(value.s)
      [] value.t = "array" -> Len(value.a)
      [] OTHER -> 0

\* v.validate(value) of Validates.Presence: the message, or undefined
PresenceValidate(v, value) ==
    IF RegexBlank(Or(value, Str(""))) THEN Str(v.message) ELSE Undef

\* v[kind] || v.message || GoodForm.defaultErrorMessages[kind], with %d
\* replaced
LengthMessage(v, kind, n) ==
    IF v[kind] /= "" THEN v[kind]
    ELSE IF v.message /= "" THEN v.message
    ELSE ReplaceD(kind, n)

\* Validates.Length with the test of equal bounds after the two others
LengthValidateBoundsFirst(v, value) ==
    LET len == IF Truthy(value) THEN LengthOf(value) ELSE 0
    IN  IF v.minimum /= None /\ len < v.minimum
        THEN Str(LengthMessage(v, "tooShort", v.minimum))
        ELSE IF v.maximum /= None /\ v.maximum /= 0 /\ len > v.maximum
        THEN Str(LengthMessage(v, "tooLong", v.maximum))
        ELSE IF v.minimum = v.maximum /\ len /= v.minimum
        THEN Str(LengthMessage(v, "wrongLength", v.minimum))
        ELSE Undef

\* v.validate(value) of Validates.Length
LengthValidate(v, value) ==
    LET len == IF Truthy(value) THEN LengthOf(value) ELSE 0
    IN  IF v.minimum = v.maximum /\ len /= v.minimum
        THEN Str(LengthMessage(v, "wrongLength", v.minimum))
        ELSE IF v.minimum /= None /\ len < v.minimum
        THEN Str(LengthMessage(v, "tooShort", v.minimum))
        ELSE IF v.maximum /= None /\ v.maximum /= 0 /\ len > v.maximum
        THEN Str(LengthMessage(v, "tooLong", v.maximum))
        ELSE Undef

\* document.getElementById(orig.id + "_confirmation").name, in a form whose
\* elements have their names as ids
ConfirmationName(name) == name \o "_confirmation"

RECURSIVE ConfirmationLoop(_, _, _, _)
\* the loop of lines 225-235, from the i-th name on: one Validation object
\* for each name, registered for the name of its confirmation element; the
\* validate functions all close over the one variable v of the call, which
\* holds the last object created when they run
ConfirmationLoop(g, names, o, i) ==
    IF i > Len(names) THEN g
    ELSE ConfirmationLoop(
             Validation(g, "Confirmation", <<ConfirmationName(names[i])>>,
                        [orig |-> names[i], closure |-> names[Len(names)]] @@ o,
                        "confirmation", FALSE),
             names, o, i + 1)

\* Validates.Confirmation(names..., options)
Confirmation(g, names, o) == ConfirmationLoop(g, names, o, 1)

\* element.value of the first element of a name
ValueOf(name) ==
    IF name \in DOMAIN dom /\ Len(dom[name]) > 0 THEN Str(dom[name][1]) ELSE Undef

\* value == s, s a string: an array is converted to a string first (no
\* string of the model holds a comma), and undefined equals no string
LooseEqual(value, s) ==
    CASE value.t = "string" -> s.t = "string" /\ value.s = s.s
      [] value.t = "array" -> /\ s.t = "string"
                              /\ \/ Len(value.a) = 0 /\ s.s = ""
                                 \/ Len(value.a) = 1 /\ s.s = value.a[1]
      [] OTHER -> LooseUndefined(s)

\* v.validate(value) of Validates.Confirmation: v is the variable of the
\* call that created the object
ConfirmationValidate(v, value) ==
    IF ~LooseEqual(value, ValueOf(v.closure)) THEN Str(v.message) ELSE Undef

validate(v, value) ==
    CASE v.kind = "Presence" -> PresenceValidate(v, value)
      [] v.kind = "Length" -> LengthValidate(v, value)
      [] v.kind = "Confirmation" -> ConfirmationValidate(v, value)
      [] OTHER -> Undef

\* the TypeError that reading a property of undefined throws, as the outcome
\* of a call
TypeError == [t |-> "TypeError"]

\* Validate.Local(name): GoodForm.local[name][i] throws for a name that has
\* no local validation
Local(name) ==
    IF ~Has(local, name) THEN TypeError
    ELSE Bool(\A i \in 1..Len(RulesOf(local, name)) :
                 ~Truthy(validate(RulesOf(local, name)[i], getValuesByName(name))))

\* the functions given as "if" and unless options, applied to a name:
\* Validate.Local (given by the pages for names that have local validations),
\* functions that return true and false, and one that returns the value of
\* the name
Cond(c, name) ==
    CASE c = "Local" -> Local(name)
      [] c = "yes" -> Bool(TRUE)
      [] c = "no" -> Bool(FALSE)
      [] c = "value" -> getValuesByName(name)
      [] OTHER -> Undef

\* the case labels without the one of line 554
SkippedNoBlank(v, name, value) ==
    \/ v.allowNull /\ LooseEmpty(value)
    \/ v.if /= "none" /\ ~Truthy(Cond(v.if, name))
    \/ v.unless /= "none" /\ Cond(v.unless, name) = Bool(TRUE)

\* the four case labels of lines 554-557; switch (true) matches a label that
\* is strictly true
Skipped(v, name, value) ==
    \/ v.allowBlank /\ RegexBlank(value)
    \/ v.allowNull /\ LooseEmpty(value)
    \/ v.if /= "none" /\ ~Truthy(Cond(v.if, name))
    \/ v.unless /= "none" /\ Cond(v.unless, name) = Bool(TRUE)

(***************************************************************************)
(* The engine.  The operators below work on a record m of the mutable      *)
(* state (queue, response, xhr and the logs effects and evals) and         *)
(* return the record after the call, with the call's return value.         *)
(***************************************************************************)
\* GoodForm.validMessages[name] || GoodForm.validMessage
ValidMessageOf(name) ==
    IF name \in DOMAIN validMessages /\ validMessages[name] /= ""
    THEN Str(validMessages[name]) ELSE Str(validMessage)

\* Helpers.findOrCreateValidationSpan(name) finds or creates the span of a
\* name that has form elements, and returns nothing for any other name (a
\* parameter that is no form item)
findOrCreateValidationSpan(name) == name \in DOMAIN dom

\* new GoodForm.Validate.Effect(name, response), created by src: "Run" for
\* Validate.Run, "xhr" for the ready-state handler of a request; effects logs
\* the ones that have a span to write to
Effect(m, name, resp, src) ==
    LET status == parseResponse(resp)
        html == CASE status = "loading" -> loadingMessage
                  [] status = "valid" -> ToHtml(Or(resp, ValidMessageOf(name)))
                  [] status = "error" -> join(resp.a)
    IN  IF findOrCreateValidationSpan(name)
        THEN [m EXCEPT !.effects = Append(@, [name |-> name, status |-> status,
                                                  innerHTML |-> html, src |-> src])]
        ELSE m

RECURSIVE pushParameters(_, _, _)
\* v.pushParameters() of Validates.Ajax, from the i-th include on; an include
\* is [name, eq]: the string name, or the string name=eq when eq is a string
pushParameters(v, q, i) ==
    IF i > Len(v.include) THEN q
    ELSE LET incl == v.include[i]
             value == IF incl.eq = Undef THEN getValuesByName(incl.name) ELSE Undef
         IN  pushParameters(v, IF Truthy(value) THEN Put(q, incl.name, value)
                               ELSE Put(q, incl.name, incl.eq), i + 1)

\* the new error assigned instead of concatenated
ConcatOverwrite(errors, error) == Arr(<<error.s>>)

\* errors.concat(error), errors being an array or (a valid message) a string
Concat(errors, error) ==
    IF errors.t = "array" THEN Arr(Append(errors.a, error.s))
    ELSE Str(ToHtml(errors) \o error.s)

RECURSIVE QueueLoop(_, _, _, _, _)
\* the loop of lines 551-568, from the i-th rule on
QueueLoop(m, type, name, value, i) ==
    LET rules == RulesOf(IF type = "remote" THEN remote ELSE local, name)
    IN  IF i > Len(rules) THEN m
        ELSE LET v == rules[i]
                 error == validate(v, value)
                 errors == Or(Get(m.response, name), Arr(<<>>))
                 m1 == IF Skipped(v, name, value) THEN m
                       ELSE IF type = "remote"
                       THEN [m EXCEPT !.queue = pushParameters(v, Put(@, name, value), 1)]
                       ELSE IF Truthy(error)
                       THEN [m EXCEPT !.response = Put(@, name, Concat(errors, error)),
                                      !.evals = Append(@, [name |-> name, id |-> v.id])]
                       ELSE [m EXCEPT !.evals = Append(@, [name |-> name, id |-> v.id])]
             IN  QueueLoop(m1, type, name, value, i + 1)

\* lines 569-574, m being the state the loop has left
QueueReturn(m, type, name) ==
    IF type = "remote" THEN [m |-> m, ret |-> Get(m.queue, name)]
    ELSE IF ~Truthy(Get(m.response, name))
    THEN [m |-> [m EXCEPT !.response = Put(@, name, ValidMessageOf(name))],
          ret |-> ValidMessageOf(name)]
    ELSE [m |-> m, ret |-> Get(m.response, name)]

\* GoodForm.Validate.Queue(type, name, value)
Queue(m, type, name, value) ==
    IF ~Has(IF type = "remote" THEN remote ELSE local, name)
    THEN [m |-> m, ret |-> Null]
    ELSE QueueReturn(QueueLoop(m, type, name, value, 1), type, name)

RECURSIVE EffectAll(_, _, _, _)
\* for (var name in obj) new GoodForm.Validate.Effect(name, obj[name]), or
\* with no response when loading
EffectAll(m, obj, loading, src) ==
    IF Len(obj) = 0 THEN m
    ELSE EffectAll(Effect(m, Head(obj).k, IF loading THEN Undef ELSE Head(obj).v, src),
                   Tail(obj), loading, src)

\* the handler without the test of t.status
onreadystatechangeAnyStatus(m, r) ==
    IF m.xhr[r].readyState = 4
    THEN EffectAll(m, m.xhr[r].json, FALSE, "xhr")
    ELSE EffectAll(m, m.queue, TRUE, "xhr")

\* t.onreadystatechange of request r (lines 622-630); loadingState is
\* declared at line 617 and never assigned, so !loadingState always holds
onreadystatechange(m, r) ==
    LET t == m.xhr[r]
        loadingState == FALSE
    IN  IF t.readyState = 4 /\ t.status >= 200 /\ t.status < 300
        THEN EffectAll(m, t.json, FALSE, "xhr")
        ELSE IF ~loadingState THEN EffectAll(m, m.queue, TRUE, "xhr")
        ELSE m

RECURSIVE ParamsOf(_, _)
\* the inner loop of lines 611-612 over [].concat(queue[name]): it ends at the
\* first value that is not truthy
ParamsOf(name, values) ==
    IF Len(values) = 0 \/ ~Truthy(Head(values)) THEN <<>>
    ELSE <<[k |-> name, v |-> encodeURIComponent(Head(values).s)]>>
         \o ParamsOf(name, Tail(values))

RECURSIVE Params(_)
\* lines 608-613
Params(q) ==
    IF Len(q) = 0 THEN <<>>
    ELSE LET x == Head(q).v
             values == IF x.t = "array" THEN [i \in 1..Len(x.a) |-> Str(x.a[i])] ELSE <<x>>
         IN  ParamsOf(Head(q).k, values) \o Params(Tail(q))

\* Validate.Remote without the return of line 615
RemoteAlways(m) ==
    LET t == [params |-> Params(m.queue), batch |-> Keys(m.queue), readyState |-> 1,
              status |-> 0, json |-> <<>>, log |-> <<>>,
              by |-> [op |-> m.by.op, silent |-> m.by.silent]]
    IN  [m |-> onreadystatechange([m EXCEPT !.xhr = Append(@, t)], Len(m.xhr) + 1),
         ret |-> TRUE]

\* GoodForm.Validate.Remote(): t.open fires readystatechange (readyState 1)
\* before it returns, while the queue is still the one being sent
Remote(m) ==
    LET params == Params(m.queue)
        t == [params |-> params, batch |-> Keys(m.queue), readyState |-> 1,
              status |-> 0, json |-> <<>>, log |-> <<>>,
              by |-> [op |-> m.by.op, silent |-> m.by.silent]]
        r == Len(m.xhr) + 1
    IN  IF Len(params) < 1 THEN [m |-> m, ret |-> FALSE]
        ELSE [m |-> onreadystatechange([m EXCEPT !.xhr = Append(@, t)], r), ret |-> TRUE]

\* Validate.Run with the loop of lines 686-690 run whatever Validate.Remote
\* returned
RunReturnAfterRemote(sent, options) ==
    [m |-> [(IF ~options.silent
             THEN EffectAll(sent.m, sent.m.response, FALSE, "Run")
             ELSE sent.m) EXCEPT !.queue = <<>>],
     ret |-> Bool(parseResponse(IF Len(sent.m.response) > 0
                                THEN sent.m.response[Len(sent.m.response)].v
                                ELSE Undef) = "valid")]

\* Validate.Run without the assignment of line 692
RunReturnKeepQueue(sent, options) ==
    [m |-> IF ~sent.ret /\ ~options.silent
           THEN EffectAll(sent.m, sent.m.response, FALSE, "Run")
           ELSE sent.m,
     ret |-> Bool(parseResponse(IF ~sent.ret /\ Len(sent.m.response) > 0
                                THEN sent.m.response[Len(sent.m.response)].v
                                ELSE Undef) = "valid")]

\* lines 685-693, sent being what Validate.Remote() has left and returned;
\* the variable response is the last entry the loop visited
RunReturn(sent, options) ==
    [m |-> [(IF ~sent.ret /\ ~options.silent
             THEN EffectAll(sent.m, sent.m.response, FALSE, "Run")
             ELSE sent.m) EXCEPT !.queue = <<>>],
     ret |-> Bool(parseResponse(IF ~sent.ret /\ Len(sent.m.response) > 0
                                THEN sent.m.response[Len(sent.m.response)].v
                                ELSE Undef) = "valid")]

\* GoodForm.Validate.Run(options)
Run(m, options) == RunReturn(Remote(m), options)

\* lines 539-542, m being the state the dispatch has left
NameReturn(m, name, options) ==
    IF ~options.defer THEN Run(m, [silent |-> options.silent])
    ELSE IF name /= "" THEN [m |-> m, ret |-> Get(m.response, name)]
    ELSE [m |-> m, ret |-> Undef]

\* lines 536-542, rem being what the remote dispatch has left and returned
NameLocal(rem, name, value, options) ==
    NameReturn(IF ~Truthy(rem.ret) THEN Queue(rem.m, "local", name, value).m ELSE rem.m,
               name, options)

\* Validate.Name without the return of line 532
NameValueNoReturn(m, name, value, options) ==
    NameLocal(IF ~options.local THEN Queue(m, "remote", name, value)
              ELSE [m |-> m, ret |-> Undef],
              name, value, options)

\* lines 532-542, m being the state after line 529
NameValue(m, name, value, options) ==
    IF LooseUndefined(value) THEN [m |-> m, ret |-> Undef]
    ELSE NameLocal(IF ~options.local THEN Queue(m, "remote", name, value)
                   ELSE [m |-> m, ret |-> Undef],
                   name, value, options)

\* Validate.Name without the reset of line 529
NameNoReset(m, name, options) ==
    NameValue(m, name, getValuesByName(name), options)

\* GoodForm.Validate.Name(name, options)
Name(m, name, options) ==
    NameValue(IF ~options.defer THEN [m EXCEPT !.response = <<>>] ELSE m,
              name, getValuesByName(name), options)

Deferred == [defer |-> TRUE, local |-> FALSE, silent |-> FALSE]

RECURSIVE AllRemote(_, _)
\* lines 584-585
AllRemote(m, names) ==
    IF Len(names) = 0 THEN m
    ELSE AllRemote(Name(m, Head(names), Deferred).m, Tail(names))

RECURSIVE AllLocal(_, _)
\* lines 587-589
AllLocal(m, names) ==
    IF Len(names) = 0 THEN m
    ELSE AllLocal(IF ~Truthy(Get(m.response, Head(names)))
                  THEN Name(m, Head(names), Deferred).m ELSE m,
                  Tail(names))

\* GoodForm.Validate.All()
All(m) ==
    Run(AllLocal(AllRemote([m EXCEPT !.response = <<>>], Keys(remote)), Keys(local)),
        [silent |-> FALSE])

(***************************************************************************)
(* Pages: the registrations a page's script makes before anything is       *)
(* validated, and the valid messages it sets.                              *)
(***************************************************************************)
NoRules == [local |-> <<>>, remote |-> <<>>, n |-> 0]

\* the example of lines 25-31, for two names
PageExample ==
    [reg |-> Ajax(Length(Presence(NoRules, <<"login", "email">>, <<>>),
                         <<"login">>, [minimum |-> 2, maximum |-> 3]),
                  <<"email">>, <<>>),
     validMessages |-> <<>>]

\* an Ajax validation guarded by the local ones (line 29), a length that
\* allows blank (line 327) and a valid message (line 109)
PageGuarded ==
    [reg |-> Ajax(Presence(Length(Presence(NoRules, <<"login">>, <<>>),
                                  <<"login">>, [minimum |-> 2, maximum |-> 3, allowBlank |-> TRUE]),
                           <<"email">>, <<>>),
                  <<"email">>, [if |-> "Local"]),
     validMessages |-> [login |-> "OK"]]

\* local validations only
PageLocal ==
    [reg |-> Length(Presence(NoRules, <<"login", "email">>, <<>>),
                    <<"email">>, [minimum |-> 2]),
     validMessages |-> <<>>]

Pages == {PageExample, PageGuarded, PageLocal}

\* the lists of values the elements of one name can give
DomValues == {<<"">>, <<" ">>, <<"ab">>}

\* t.status of a completed request: success, a server error
Statuses == {200, 500}

\* the results a server gives for one name
Results == {Null, Arr(<<>>), Arr(<<"is invalid">>), Str("OK")}

RECURSIVE Names(_, _)
\* the distinct names of a parameter list, in order
Names(params, seen) ==
    IF Len(params) = 0 THEN <<>>
    ELSE IF Head(params).k \in seen THEN Names(Tail(params), seen)
    ELSE <<Head(params).k>> \o Names(Tail(params), seen \cup {Head(params).k})

\* the response bodies a server can give to a request: one result for each
\* name it was sent
Payloads(t) ==
    LET names == Names(t.params, {})
    IN  {[i \in 1..Len(names) |-> [k |-> names[i], v |-> f[i]]] :
            f \in [1..Len(names) -> Results]}

(***************************************************************************)
(* The state machine.                                                      *)
(***************************************************************************)
NoCall == [op |-> "load", name |-> "", defer |-> FALSE, local |-> FALSE,
           silent |-> FALSE, ret |-> Undef, req |-> 0]

Init ==
    /\ \E page \in Pages :
        /\ local = page.reg.local
        /\ remote = page.reg.remote
        /\ validMessages = page.validMessages
    /\ dom \in [Fields -> DomValues]
    /\ queue = <<>>
    /\ response = <<>>
    /\ xhr = <<>>
    /\ call = NoCall
    /\ ndefer = 0
    /\ ninput = 0
    /\ effects = <<>>
    /\ evals = <<>>

\* the requests that have not completed; a request that has completed is
\* no longer referenced once its handler has returned
Live == SelectSeq(xhr, LAMBDA t : t.readyState < 4)

\* the mutable state at the start of a step made by the call c
Machine(c) ==
    [queue |-> queue, response |-> response,
     xhr |-> Live,
     effects |-> <<>>, evals |-> <<>>, by |-> c]

\* the state after a step by the call c with the result res = [m, ret]; the
\* log of a request holds the Effect objects created by the call that made
\* it and by its own ready-state events
Becomes(res, c) ==
    LET m == res.m
        r == IF c.op = "event" THEN c.req
             ELSE IF Len(m.xhr) > Len(Live) THEN Len(m.xhr) ELSE 0
    IN
    /\ Len(m.xhr) <= MaxRequests
    /\ queue' = m.queue
    /\ response' = m.response
    /\ xhr' = IF r > 0 THEN [m.xhr EXCEPT ![r].log = @ \o m.effects] ELSE m.xhr
    /\ effects' = m.effects
    /\ evals' = m.evals
    /\ call' = [c EXCEPT !.ret = res.ret, !.req = r]
    /\ ndefer' = IF c.op = "event" THEN ndefer ELSE IF c.defer THEN ndefer + 1 ELSE 0
    /\ UNCHANGED <<local, remote, validMessages, dom, ninput>>

\* a script calls Validate(name, options)
ValidateName ==
    \E name \in Fields, defer \in BOOLEAN, loc \in BOOLEAN, silent \in BOOLEAN :
        LET c == [NoCall EXCEPT !.op = "Name", !.name = name, !.defer = defer,
                                !.local = loc, !.silent = silent]
        IN  /\ defer => ndefer < MaxDeferred
            /\ Becomes(Name(Machine(c), name,
                            [defer |-> defer, local |-> loc, silent |-> silent]), c)

\* a script calls Validate.All()
ValidateAll ==
    LET c == [NoCall EXCEPT !.op = "All"]
    IN  Becomes(All(Machine(c)), c)

\* the browser moves request r to its next ready state and calls the handler
ReadyStateChange ==
    \E r \in 1..Len(Live) :
        \E t \in IF Live[r].readyState < 3
                  THEN {[Live[r] EXCEPT !.readyState = @ + 1]}
                  ELSE {[Live[r] EXCEPT !.readyState = 4, !.status = status, !.json = json] :
                            status \in Statuses, json \in Payloads(Live[r])} :
            LET c == [NoCall EXCEPT !.op = "event", !.req = r]
            IN  Becomes([m |-> onreadystatechange([Machine(c) EXCEPT !.xhr[r] = t], r),
                         ret |-> Undef], c)

\* the user changes the value of a form item
SetValue ==
    \E name \in Fields, values \in DomValues :
        /\ values /= dom[name]
        /\ ninput < MaxInputs
        /\ ninput' = ninput + 1
        /\ dom' = [dom EXCEPT ![name] = values]
        /\ call' = [NoCall EXCEPT !.op = "input", !.name = name]
        /\ effects' = <<>>
        /\ evals' = <<>>
        /\ UNCHANGED <<local, remote, validMessages, queue, response, xhr, ndefer>>

Next == ValidateName \/ ValidateAll \/ ReadyStateChange \/ SetValue

Spec == Init /\ [][Next]_vars

(***************************************************************************)
(* A second specification, of a form whose items can have no value or      *)
(* several values and whose Ajax validation has include parameters.        *)
(***************************************************************************)
\* a length that allows blank (line 327), and for a name that has a length
\* an Ajax validation that allows blank and includes another item and a
\* parameter (lines 472-473)
PageInclude ==
    [reg |-> Ajax(Length(Length(NoRules, <<"login">>, [minimum |-> 2, allowBlank |-> TRUE]),
                         <<"email">>, [maximum |-> 3]),
                  <<"email">>,
                  [allowBlank |-> TRUE,
                   include |-> <<[name |-> "login", eq |-> Undef],
                                 [name |-> "token", eq |-> Str("1")]>>]),
     validMessages |-> <<>>]

\* the lists of values of the form: no value, an empty value, white space,
\* one value, several values with an empty one among them
DomValuesForm == {<<>>, <<"">>, <<" ">>, <<"ab">>, <<"ab", "", "c">>}

\* the response bodies of the form's server: a result for email
PayloadsForm == {<<[k |-> "email", v |-> res]>> : res \in {Null, Arr(<<"is invalid">>)}}

InitForm ==
    /\ local = PageInclude.reg.local
    /\ remote = PageInclude.reg.remote
    /\ validMessages = PageInclude.validMessages
    /\ dom \in [Fields -> DomValuesForm]
    /\ queue = <<>>
    /\ response = <<>>
    /\ xhr = <<>>
    /\ call = NoCall
    /\ ndefer = 0
    /\ ninput = 0
    /\ effects = <<>>
    /\ evals = <<>>

\* the browser moves request r to its next ready state and calls the handler
ReadyStateChangeForm ==
    \E r \in 1..Len(Live) :
        \E t \in IF Live[r].readyState < 3
                  THEN {[Live[r] EXCEPT !.readyState = @ + 1]}
                  ELSE {[Live[r] EXCEPT !.readyState = 4, !.status = status, !.json = json] :
                            status \in Statuses, json \in PayloadsForm} :
            LET c == [NoCall EXCEPT !.op = "event", !.req = r]
            IN  Becomes([m |-> onreadystatechange([Machine(c) EXCEPT !.xhr[r] = t], r),
                         ret |-> Undef], c)

\* the user changes the values of a form item
SetValueForm ==
    \E name \in Fields, values \in DomValuesForm :
        /\ values /= dom[name]
        /\ ninput < MaxInputs
        /\ ninput' = ninput + 1
        /\ dom' = [dom EXCEPT ![name] = values]
        /\ call' = [NoCall EXCEPT !.op = "input", !.name = name]
        /\ effects' = <<>>
        /\ evals' = <<>>
        /\ UNCHANGED <<local, remote, validMessages, queue, response, xhr, ndefer>>

NextForm == ValidateName \/ ValidateAll \/ ReadyStateChangeForm \/ SetValueForm

SpecForm == InitForm /\ [][NextForm]_vars

(***************************************************************************)
(* A third specification, in which a script can validate again before a    *)
(* request has completed.                                                  *)
(***************************************************************************)
\* number of XMLHttpRequest objects that have not completed, at any time
MaxOverlap == 2

InitOverlap ==
    /\ local = PageExample.reg.local
    /\ remote = PageExample.reg.remote
    /\ validMessages = PageExample.validMessages
    /\ dom = [name \in Fields |-> <<"ab">>]
    /\ queue = <<>>
    /\ response = <<>>
    /\ xhr = <<>>
    /\ call = NoCall
    /\ ndefer = 0
    /\ ninput = 0
    /\ effects = <<>>
    /\ evals = <<>>

\* Becomes, with up to MaxOverlap requests that have not completed
BecomesOverlap(res, c) ==
    LET m == res.m
        r == IF c.op = "event" THEN c.req
             ELSE IF Len(m.xhr) > Len(Live) THEN Len(m.xhr) ELSE 0
    IN
    /\ Len(m.xhr) <= MaxOverlap
    /\ queue' = m.queue
    /\ response' = m.response
    /\ xhr' = IF r > 0 THEN [m.xhr EXCEPT ![r].log = @ \o m.effects] ELSE m.xhr
    /\ effects' = m.effects
    /\ evals' = m.evals
    /\ call' = [c EXCEPT !.ret = res.ret, !.req = r]
    /\ ndefer' = IF c.op = "event" THEN ndefer ELSE IF c.defer THEN ndefer + 1 ELSE 0
    /\ UNCHANGED <<local, remote, validMessages, dom, ninput>>

\* a script calls Validate(name, options)
ValidateNameOverlap ==
    \E name \in Fields, defer \in BOOLEAN, loc \in BOOLEAN, silent \in BOOLEAN :
        LET c == [NoCall EXCEPT !.op = "Name", !.name = name, !.defer = defer,
                                !.local = loc, !.silent = silent]
        IN  /\ defer => ndefer < MaxDeferred
            /\ BecomesOverlap(Name(Machine(c), name,
                                   [defer |-> defer, local |-> loc, silent |-> silent]), c)

\* a script calls Validate.All()
ValidateAllOverlap ==
    LET c == [NoCall EXCEPT !.op = "All"]
    IN  BecomesOverlap(All(Machine(c)), c)

\* the browser moves request r to its next ready state and calls the handler
ReadyStateChangeOverlap ==
    \E r \in 1..Len(Live) :
        \E t \in IF Live[r].readyState < 3
                  THEN {[Live[r] EXCEPT !.readyState = @ + 1]}
                  ELSE {[Live[r] EXCEPT !.readyState = 4, !.status = status, !.json = json] :
                            status \in Statuses, json \in Payloads(Live[r])} :
            LET c == [NoCall EXCEPT !.op = "event", !.req = r]
            IN  BecomesOverlap([m |-> onreadystatechange([Machine(c) EXCEPT !.xhr[r] = t], r),
                                ret |-> Undef], c)

NextOverlap == ValidateNameOverlap \/ ValidateAllOverlap \/ ReadyStateChangeOverlap

SpecOverlap == InitOverlap /\ [][NextOverlap]_vars

(***************************************************************************)
(* A fourth specification, in which the scripts of the page register the   *)
(* validations as it loads, on a form that has confirmation items, and     *)
(* call Validate.Local.                                                    *)
(***************************************************************************)
\* number of Validation objects created
MaxRules == 2

FieldsRules == {"login", "email", "login_confirmation", "email_confirmation"}

\* the lists of values an item of the form can give
DomValuesRules(name) ==
    CASE name = "login" -> {<<"">>, <<"ab">>, <<"abc">>}
      [] name = "email" -> {<<"abc">>}
      [] OTHER -> {<<"ab">>}

\* the calls of named validations the scripts of the page make: a
\* confirmation of two items (line 213), lengths with equal bounds given by
\* is, by within and by minimum and maximum (lines 343-345), the last one
\* unless the item has a value, and an Ajax validation of two items
Registrations ==
    {[kind |-> "Confirmation", names |-> <<"login", "email">>, o |-> <<>>],
     [kind |-> "Length", names |-> <<"login">>, o |-> [is |-> 2]],
     [kind |-> "Length", names |-> <<"login", "email">>, o |-> [within |-> <<2, 2>>]],
     [kind |-> "Length", names |-> <<"login">>,
      o |-> [minimum |-> 2, maximum |-> 2, unless |-> "value"]],
     [kind |-> "Ajax", names |-> <<"login", "email">>, o |-> <<>>]}

\* the Validation objects of a registry
ObjectsOf(reg) == UNION {{reg[i].v[j] : j \in DOMAIN reg[i].v} : i \in DOMAIN reg}

\* the number of Validation objects created so far
Created == Cardinality({v.id : v \in ObjectsOf(local) \cup ObjectsOf(remote)})

\* the registries after the call r of a named validation
Registered(g, r) ==
    CASE r.kind = "Confirmation" -> Confirmation(g, r.names, r.o)
      [] r.kind = "Length" -> Length(g, r.names, r.o)
      [] r.kind = "Ajax" -> Ajax(g, r.names, r.o)

InitRules ==
    /\ local = <<>>
    /\ remote = <<>>
    /\ validMessages = <<>>
    /\ dom \in {d \in [FieldsRules -> UNION {DomValuesRules(name) : name \in FieldsRules}] :
                   \A name \in FieldsRules : d[name] \in DomValuesRules(name)}
    /\ queue = <<>>
    /\ response = <<>>
    /\ xhr = <<>>
    /\ call = NoCall
    /\ ndefer = 0
    /\ ninput = 0
    /\ effects = <<>>
    /\ evals = <<>>

\* a script calls a named validation, before any validation is run
RegisterRule ==
    \E r \in Registrations :
        LET g == Registered([local |-> local, remote |-> remote, n |-> Created], r)
        IN  /\ call.op \in {"load", "register"}
            /\ g.n <= MaxRules
            /\ local' = g.local
            /\ remote' = g.remote
            /\ call' = [NoCall EXCEPT !.op = "register"]
            /\ effects' = <<>>
            /\ evals' = <<>>
            /\ UNCHANGED <<validMessages, dom, queue, response, xhr, ndefer, ninput>>

\* a script calls Validate(name, options)
ValidateNameRules ==
    \E name \in FieldsRules, defer \in BOOLEAN :
        LET c == [NoCall EXCEPT !.op = "Name", !.name = name, !.defer = defer]
        IN  /\ defer => ndefer < MaxDeferred
            /\ Becomes(Name(Machine(c), name,
                            [defer |-> defer, local |-> FALSE, silent |-> FALSE]), c)

\* a script calls Validate.Local(name): the call returns true or false, or
\* throws
ValidateLocal ==
    \E name \in FieldsRules :
        /\ call' = [NoCall EXCEPT !.op = "Local", !.name = name, !.ret = Local(name)]
        /\ effects' = <<>>
        /\ evals' = <<>>
        /\ UNCHANGED <<local, remote, validMessages, dom, queue, response, xhr,
                       ndefer, ninput>>

NextRules ==
    RegisterRule \/ ValidateNameRules \/ ValidateAll \/ ValidateLocal \/ ReadyStateChangeForm

SpecRules == InitRules /\ [][NextRules]_vars

(***************************************************************************)
(* Properties.                                                             *)
(***************************************************************************)
\* the step just taken was a ready-state event that completed its request
Completed == call.op = "event" /\ xhr[call.req].readyState = 4
\* ... with a 2xx status
Succeeded == Completed /\ xhr[call.req].status >= 200 /\ xhr[call.req].status < 300
\* a response that is a non-empty list of errors
IsErrors(x) == x.t = "array" /\ Len(x.a) > 0
\* the name has local validations and no remote ones
OnlyLocal(name) == Has(local, name) /\ ~Has(remote, name)
\* the final (valid or error) and the loading reports for a name in a log
Finals(log, name) ==
    {i \in DOMAIN log : log[i].name = name /\ log[i].status \in {"valid", "error"}}
Loadings(log, name) ==
    {i \in DOMAIN log : log[i].name = name /\ log[i].status = "loading"}

\* C1: a flush (Validate.Run, reached from Validate.All or from a Validate
\* that is not deferred) returns true only if no entry of the response map is
\* a non-empty list of errors.
C1_TrueOnlyIfAllValid ==
    (call.op \in {"Name", "All"} /\ call.ret = Bool(TRUE))
        => \A i \in DOMAIN response : ~IsErrors(response[i].v)

\* C2: once Validate.All has returned and the request it made (if any) has
\* completed with success, every name that has validations and a value has
\* had exactly one final (valid or error) Effect, from the call or from the
\* request.
C2_AllReportsEachFieldOnce ==
    LET settled == \/ call.op = "All" /\ call.req = 0
                   \/ Succeeded /\ xhr[call.req].by.op = "All"
        log == IF call.req > 0 THEN xhr[call.req].log ELSE effects
    IN  settled =>
            \A name \in Fields :
                ((Has(local, name) \/ Has(remote, name)) /\ getValuesByName(name) /= Undef)
                    => Cardinality(Finals(log, name)) = 1

\* C3: when a request completes with success, every name of the response body
\* gets an Effect whose status follows from its result: null or empty is
\* valid, a non-empty list of strings is error with those messages, any other
\* value is valid with that value as the message.
C3_StatusFollowsResult ==
    Succeeded =>
        \A i \in DOMAIN xhr[call.req].json :
            LET name == xhr[call.req].json[i].k
                result == xhr[call.req].json[i].v
            IN  \E j \in DOMAIN effects :
                    /\ effects[j].name = name
                    /\ effects[j].status = IF IsErrors(result) THEN "error" ELSE "valid"
                    /\ IsErrors(result) => effects[j].innerHTML = join(result.a)
                    /\ Truthy(result) /\ ~IsErrors(result)
                           => effects[j].innerHTML = ToHtml(result)

\* C4 as claimed: from any state, a Validate that is not deferred, on a name
\* with local validations only, returns true exactly when the name's entry in
\* the response map is valid, and no loading status is reported or recorded.
C4_LocalIsSynchronous ==
    (call.op = "Name" /\ ~call.defer /\ OnlyLocal(call.name))
        => /\ call.ret = Bool(Get(response, call.name).t = "string")
           /\ call.ret = Bool(~IsErrors(Get(response, call.name)))
           /\ \A j \in DOMAIN effects : effects[j].status /= "loading"
           /\ \A i \in DOMAIN response : ~LooseUndefined(response[i].v)

\* C4 as amended: the same, from the states whose queue gives no parameter to
\* send (an empty queue among them).
C4_LocalIsSynchronousFromIdle ==
    [][(Params(queue) = <<>> /\ call'.op = "Name" /\ ~call'.defer /\ OnlyLocal(call'.name))
        => /\ call'.ret = Bool(Get(response', call'.name).t = "string")
           /\ call'.ret = Bool(~IsErrors(Get(response', call'.name)))
           /\ \A j \in DOMAIN effects' : effects'[j].status /= "loading"
           /\ \A i \in DOMAIN response' : ~LooseUndefined(response'[i].v)]_vars

\* C4: a name with local validations only has just been validated, not
\* deferred, and found valid
C4_Witness ==
    /\ call.op = "Name" /\ ~call.defer /\ OnlyLocal(call.name)
    /\ call.ret = Bool(TRUE)
    /\ call.req = 0
    /\ Get(response, call.name).t = "string"

\* C5: in a Validate (not local-only) on a name with remote and local
\* validations, one remote validation at least not skipped, the name is
\* queued and no local validation of the name is evaluated, whatever the
\* value.
C5_RemoteBeforeLocal ==
    (/\ call.op = "Name" /\ ~call.local
     /\ Has(remote, call.name) /\ Has(local, call.name)
     /\ \E i \in DOMAIN RulesOf(remote, call.name) :
            ~Skipped(RulesOf(remote, call.name)[i], call.name, getValuesByName(call.name)))
        => /\ \A j \in DOMAIN evals : evals[j].name /= call.name
           /\ call.defer => Has(queue, call.name)

RECURSIVE Messages(_, _, _)
\* the messages of the rules that are not skipped and fail, in order
Messages(rules, name, value) ==
    IF Len(rules) = 0 THEN <<>>
    ELSE (IF ~Skipped(Head(rules), name, value) /\ validate(Head(rules), value) /= Undef
          THEN <<validate(Head(rules), value).s>> ELSE <<>>)
         \o Messages(Tail(rules), name, value)

\* C6: after Validate.All or a Validate that is not deferred, an entry that
\* the local dispatch has put in the response map is the list of the messages
\* of the rules not skipped that failed, in the order of registration, or,
\* none having failed, the name's valid message or else the default one.
C6_EntryIsFailedRules ==
    (call.op = "All" \/ (call.op = "Name" /\ ~call.defer)) =>
        \A i \in DOMAIN response :
            LET name == response[i].k
                msgs == Messages(RulesOf(local, name), name, getValuesByName(name))
            IN  response[i].v =
                    IF msgs /= <<>> THEN Arr(msgs)
                    ELSE IF name \in DOMAIN validMessages THEN Str(validMessages[name])
                    ELSE Str(validMessage)

\* C6: two rules of one name have failed in a Validate that is not deferred
C6_Witness ==
    /\ call.op = "Name" /\ ~call.defer
    /\ IsErrors(Get(response, call.name))
    /\ Len(Get(response, call.name).a) = 2
    /\ Len(evals) = 2

\* C7: when a request completes with success, every entry of the response
\* body is in the response map.
C7_ResponseBodyMerged ==
    Succeeded =>
        \A i \in DOMAIN xhr[call.req].json :
            Get(response, xhr[call.req].json[i].k) = xhr[call.req].json[i].v

\* C8: a Validate called with the silent option creates no Effect, neither
\* in the call nor in any ready-state event of the request it made.
C8_SilentNeverReports ==
    /\ (call.op = "Name" /\ call.silent) => effects = <<>>
    /\ (call.op = "event" /\ xhr[call.req].by.op = "Name" /\ xhr[call.req].by.silent)
          => effects = <<>>

\* C9: over all the ready-state events of one request, a name gets at most
\* one loading Effect and at most one final Effect.
C9_OncePerPhase ==
    \A r \in DOMAIN xhr : \A name \in Fields :
        /\ Cardinality(Loadings(xhr[r].log, name)) <= 1
        /\ Cardinality(Finals(xhr[r].log, name)) <= 1

\* C10: the step in which a request completes with a status that is not 2xx
\* creates no valid or error Effect (the Effects it creates are loading
\* ones), changes no entry of the response map, makes no request and leaves
\* the queue as it was.
C10_FailureChangesNothing ==
    [][(/\ call'.op = "event"
        /\ xhr'[call'.req].readyState = 4
        /\ ~(xhr'[call'.req].status >= 200 /\ xhr'[call'.req].status < 300))
        => /\ \A j \in DOMAIN effects' : effects'[j].status = "loading"
           /\ response' = response
           /\ queue' = queue
           /\ Len(xhr') = Len(Live)
           /\ \A i \in DOMAIN xhr' : i /= call'.req => xhr'[i] = Live[i]]_vars

\* C10: a request for a name has completed with status 500 and a body that
\* holds a result
C10_Witness ==
    /\ Completed
    /\ xhr[call.req].status = 500
    /\ Len(xhr[call.req].batch) > 0
    /\ \E i \in DOMAIN xhr[call.req].json : Truthy(xhr[call.req].json[i].v)

\* the step just taken was a call that reached Validate.Run: Validate.All, or
\* a Validate that is not deferred, on a name that has a value
Flushed ==
    \/ call.op = "All"
    \/ call.op = "Name" /\ ~call.defer /\ getValuesByName(call.name) /= Undef

\* C11: after every call that reached Validate.Run the queue is empty: it
\* holds no name and no include parameter, whether a request was made or not
\* and whether it has completed or not.
C11_QueueEmptyAfterRun == Flushed => queue = <<>>

\* C11: a Validate that is not deferred has made a request that carries an
\* include parameter and has not completed
C11_Witness ==
    /\ call.op = "Name" /\ ~call.defer
    /\ call.req > 0
    /\ xhr[call.req].readyState < 4
    /\ \E i \in DOMAIN xhr[call.req].batch : xhr[call.req].batch[i] = "token"
    /\ queue = <<>>

\* the requests that have been made and have not completed
Outstanding == {r \in DOMAIN xhr : xhr[r].readyState < 4}

\* C12: in every state, one request at most has been made and has not
\* completed.
C12_OneRequestOutstanding == Cardinality(Outstanding) <= 1

\* C13 as claimed: a Validate, deferred or not, on a name that has no value
\* returns undefined, makes no request, creates no Effect and leaves the
\* response map and the queue as they were.
C13_NoValueIsNoOp ==
    [][(call'.op = "Name" /\ dom[call'.name] = <<>>)
        => /\ call'.ret = Undef
           /\ call'.req = 0 /\ xhr' = Live
           /\ effects' = <<>> /\ evals' = <<>>
           /\ queue' = queue
           /\ response' = response]_vars

\* C13 as amended: the same, but a Validate that is not deferred leaves the
\* response map empty, whatever it held.
C13_NoValueResetsOnly ==
    [][(call'.op = "Name" /\ dom[call'.name] = <<>>)
        => /\ call'.ret = Undef
           /\ call'.req = 0 /\ xhr' = Live
           /\ effects' = <<>> /\ evals' = <<>>
           /\ queue' = queue
           /\ response' = IF call'.defer THEN response ELSE <<>>]_vars

\* C13: a Validate that is not deferred, on a name that has no value, has
\* returned with names still in the queue
C13_Witness ==
    /\ call.op = "Name" /\ ~call.defer
    /\ dom[call.name] = <<>>
    /\ call.ret = Undef
    /\ queue /= <<>>

\* the entry the local dispatch gives a name in an empty response map
Fresh(name) ==
    LET msgs == Messages(RulesOf(local, name), name, getValuesByName(name))
    IN  IF msgs /= <<>> THEN Arr(msgs) ELSE ValidMessageOf(name)

\* C14: a Validate that is not deferred leaves no entry in the response map
\* for a name other than its own; Validate.All leaves none that an earlier
\* call had put there (each entry is the one an empty map gets); a deferred
\* Validate leaves the entry of every other name, present or absent, as it
\* was.
C14_ResponseReset ==
    [][/\ (call'.op = "Name" /\ ~call'.defer)
            => \A i \in DOMAIN response' : response'[i].k = call'.name
       /\ call'.op = "All"
            => \A i \in DOMAIN response' : response'[i].v = Fresh(response'[i].k)
       /\ (call'.op = "Name" /\ call'.defer)
            => \A name \in Fields \ {call'.name} :
                  /\ Has(response', name) = Has(response, name)
                  /\ Get(response', name) = Get(response, name)]_vars

\* C14: a deferred Validate has returned and the response map holds the entry
\* of its name and the entry of another name
C14_Witness ==
    /\ call.op = "Name" /\ call.defer
    /\ Has(response, call.name)
    /\ \E name \in Fields \ {call.name} : Has(response, name)

\* C15: a deferred Validate on a name that has a value makes no request,
\* creates no Effect, removes no name from the queue, leaves the entries of
\* the other names as they were and returns the entry of its name, which is
\* undefined when the call has put the name in the queue.
C15_DeferredNeverFlushes ==
    [][(call'.op = "Name" /\ call'.defer /\ dom[call'.name] /= <<>>)
        => /\ call'.req = 0 /\ xhr' = Live
           /\ effects' = <<>>
           /\ \A i \in DOMAIN queue : Has(queue', queue[i].k)
           /\ \A name \in Fields \ {call'.name} : Get(response', name) = Get(response, name)
           /\ call'.ret = Get(response', call'.name)
           /\ (Has(queue', call'.name) /\ ~Has(queue, call'.name))
                 => call'.ret = Undef]_vars

\* the queue that the call c, made in this state, hands to Validate.Run
QueueAtRun(c) ==
    IF c.op = "All"
    THEN AllLocal(AllRemote([Machine(c) EXCEPT !.response = <<>>], Keys(remote)),
                  Keys(local)).queue
    ELSE IF c.local THEN queue
    ELSE QueueLoop(Machine(c), "remote", c.name, getValuesByName(c.name), 1).queue

\* the parameters that the values of a queue amount to: one for each value
\* of each name
Carried(q) ==
    UNION {IF q[i].v.t = "string" THEN {[k |-> q[i].k, v |-> encodeURIComponent(q[i].v.s)]}
           ELSE IF q[i].v.t = "array"
           THEN {[k |-> q[i].k, v |-> encodeURIComponent(q[i].v.a[j])] : j \in DOMAIN q[i].v.a}
           ELSE {} : i \in DOMAIN q}

\* C16: a call that reaches Validate.Run with a queue that is not empty makes
\* exactly one request, and the request's parameters hold every value of
\* every name of the queue, include parameters among them, empty values too.
C16_RequestCarriesQueue ==
    [][(Flushed' /\ QueueAtRun(call') /= <<>>)
        => /\ call'.req > 0
           /\ Len(xhr') = Len(Live) + 1
           /\ \A p \in Carried(QueueAtRun(call')) :
                  \E j \in DOMAIN xhr'[call'.req].params : xhr'[call'.req].params[j] = p]_vars

\* the Effect that presents the entry x of a name
Report(name, x) ==
    [name |-> name,
     status |-> IF IsErrors(x) THEN "error" ELSE "valid",
     innerHTML |-> IF IsErrors(x) THEN join(x.a)
                   ELSE IF Truthy(x) THEN ToHtml(x) ELSE ToHtml(ValidMessageOf(name)),
     src |-> "Run"]

\* C17: a call that reaches Validate.Run with an empty queue makes no
\* request, creates for each entry of the response map, in order, one Effect
\* that presents it (none when silent), and returns a value that the entries
\* of the response map determine: whether the last one is valid.
C17_EmptyQueueReportsResponse ==
    [][(Flushed' /\ QueueAtRun(call') = <<>>)
        => /\ call'.req = 0 /\ xhr' = Live
           /\ effects' = IF call'.silent THEN <<>>
                         ELSE [i \in 1..Len(response') |->
                                  Report(response'[i].k, response'[i].v)]
           /\ call'.ret = Bool(/\ Len(response') > 0
                               /\ ~IsErrors(response'[Len(response')].v))]_vars

\* C17: Validate.All has made no request and has presented the entries of
\* two names, one of them a list of errors
C17_Witness ==
    /\ call.op = "All" /\ call.req = 0
    /\ Len(response) = 2 /\ Len(effects) = 2
    /\ \E i \in DOMAIN response : IsErrors(response[i].v)
    /\ \A name \in Fields : ~Has(remote, name)

\* a remote validation of the name is not skipped for the name's value
RemoteApplies(name) ==
    /\ getValuesByName(name) /= Undef
    /\ \E i \in DOMAIN RulesOf(remote, name) :
           ~Skipped(RulesOf(remote, name)[i], name, getValuesByName(name))

\* C18: in Validate.All, the local validations of a name that has remote
\* ones are evaluated before those of a name that has none; one request at
\* most is made and a name gets one Effect at most from Validate.Run; a name
\* with a remote validation that is not skipped is a parameter of the
\* request made; no validation is evaluated twice for a name.
C18_AllRemoteFirstOnce ==
    [][call'.op = "All"
        => /\ \A i, j \in DOMAIN evals' :
                  i < j => ~(~Has(remote, evals'[i].name) /\ Has(remote, evals'[j].name))
           /\ Len(xhr') <= Len(Live) + 1
           /\ \A name \in Fields :
                  Cardinality({i \in DOMAIN effects' :
                                  effects'[i].name = name /\ effects'[i].src = "Run"}) <= 1
           /\ \A name \in Fields :
                  RemoteApplies(name)
                      => /\ call'.req > 0
                         /\ \E j \in DOMAIN xhr'[call'.req].params :
                                xhr'[call'.req].params[j].k = name
           /\ \A i, j \in DOMAIN evals' : i /= j => evals'[i] /= evals'[j]]_vars

\* C19: when Validate.All is called twice in a row (nothing registered, no
\* value changed and no ready-state event between the two calls), the
\* response map after the second call is the one after the first, and the
\* queue is empty after both.
C19_AllTwiceSameResponse ==
    [][(call.op = "All" /\ call'.op = "All")
        => /\ response' = response
           /\ queue = <<>> /\ queue' = <<>>]_vars

\* the lists of values that give one value, empty or of white space only
BlankValues == {<<"">>, <<" ">>}

\* the local validation of a name that an evaluation names
RuleOf(e) ==
    LET rules == RulesOf(local, e.name)
    IN  rules[CHOOSE i \in DOMAIN rules : rules[i].id = e.id]

\* C20: for a value that is empty or white space only, a call evaluates no
\* local validation that has allowBlank, and a name whose local validations
\* all have it gets no error; a deferred Validate on a name whose remote
\* validations all have it puts neither the name nor an include parameter in
\* the queue.
C20_AllowBlankSkips ==
    [][call'.op \in {"Name", "All"}
        => /\ \A i \in DOMAIN evals' :
                  RuleOf(evals'[i]).allowBlank => dom[evals'[i].name] \notin BlankValues
           /\ ~call'.defer
                => \A name \in Fields :
                      (/\ dom[name] \in BlankValues
                       /\ \A i \in DOMAIN RulesOf(local, name) : RulesOf(local, name)[i].allowBlank)
                          => ~IsErrors(Get(response', name))
           /\ (/\ call'.op = "Name" /\ call'.defer
               /\ dom[call'.name] \in BlankValues
               /\ \A i \in DOMAIN RulesOf(remote, call'.name) :
                      RulesOf(remote, call'.name)[i].allowBlank)
                => queue' = queue]_vars

\* C20: a deferred Validate on a name of white space only, whose Ajax
\* validation has allowBlank and includes a name that has a value, has left
\* the queue empty
C20_Witness ==
    /\ call.op = "Name" /\ call.defer /\ ~call.local
    /\ dom[call.name] = <<" ">>
    /\ Has(remote, call.name)
    /\ \A i \in DOMAIN RulesOf(remote, call.name) : RulesOf(remote, call.name)[i].allowBlank
    /\ dom["login"] = <<"ab">>
    /\ queue = <<>>

\* C21: a Validate or a Validate.All that has made a request returns false.
C21_RequestReturnsFalse ==
    (call.op \in {"Name", "All"} /\ call.req > 0) => call.ret = Bool(FALSE)

\* C21: a call has made a request, with a response map whose last entry is
\* a valid one
C21_Witness ==
    /\ call.op \in {"Name", "All"} /\ call.req > 0
    /\ xhr[call.req].readyState < 4
    /\ Len(response) > 0
    /\ response[Len(response)].v.t = "string"

\* the local Validation objects of a name whose validate function returns a
\* message for the value of the name
Failing(name) ==
    {i \in DOMAIN RulesOf(local, name) :
        Truthy(validate(RulesOf(local, name)[i], getValuesByName(name)))}

\* C22: Validate.Local changes neither the response map, the queue nor the
\* registries, creates no Effect and makes no request, and returns true when
\* no local validation of the name returns a message for the value of the
\* name, false when one does.
C22_LocalIsPureCheck ==
    [][call'.op = "Local"
        => /\ UNCHANGED <<response, queue, local, remote, xhr>>
           /\ effects' = <<>>
           /\ call'.ret = Bool(Failing(call'.name) = {})]_vars

\* the registry reg2 is reg with the objects added[name] appended to the
\* list of each name, the earlier entries and the order of the names kept
Appends(reg, reg2, added) ==
    /\ \A name \in FieldsRules :
           /\ RulesOf(reg2, name) = RulesOf(reg, name) \o added[name]
           /\ Has(reg2, name) <=> (Has(reg, name) \/ added[name] /= <<>>)
    /\ Len(reg2) >= Len(reg)
    /\ \A i \in DOMAIN reg : reg2[i].k = reg[i].k
    /\ \A i \in DOMAIN reg2 : reg2[i].k \in FieldsRules

\* C23: the call of a named validation for the names n1..nk appends one and
\* the same new object to the list of each name in the registry of its kind
\* (for a confirmation: one new object to the list of each confirmation
\* item), keeps the lists' earlier entries and the names' order and leaves
\* the other registry as it was; no other step changes a registry.
C23_RegistryAppendOnly ==
    [][IF call'.op = "register"
       THEN \E r \in Registrations :
               \E v, w \in ObjectsOf(local') \cup ObjectsOf(remote') :
                   LET old == {x.id : x \in ObjectsOf(local) \cup ObjectsOf(remote)}
                       named(name) == \E i \in DOMAIN r.names : r.names[i] = name
                       one == [name \in FieldsRules |-> IF named(name) THEN <<v>> ELSE <<>>]
                       each == [name \in FieldsRules |->
                                   IF name = ConfirmationName(r.names[1]) THEN <<v>>
                                   ELSE IF name = ConfirmationName(r.names[Len(r.names)])
                                   THEN <<w>> ELSE <<>>]
                   IN  /\ v.id \notin old
                       /\ CASE r.kind = "Ajax" ->
                                  Appends(remote, remote', one) /\ local' = local
                            [] r.kind = "Confirmation" ->
                                  /\ w.id \notin old \cup {v.id}
                                  /\ Appends(local, local', each) /\ remote' = remote
                            [] OTHER ->
                                  Appends(local, local', one) /\ remote' = remote
       ELSE local' = local /\ remote' = remote]_vars

\* C23: a length has been registered for two names, one of which had a
\* length already, and a validation has run since
C23_Witness ==
    /\ Len(RulesOf(local, "login")) = 2
    /\ Len(RulesOf(local, "email")) = 1
    /\ RulesOf(local, "login")[2] = RulesOf(local, "email")[1]
    /\ RulesOf(local, "login")[1].id = 1
    /\ call.op = "All"

\* C24: after a Validate on a confirmation item, the entry of the item in
\* the response map is a list of errors exactly when the value of the item
\* differs from the value of the item it confirms.
C24_ComparesOwnOriginal ==
    (/\ call.op = "Name" /\ ~call.defer
     /\ \E name \in FieldsRules : call.name = ConfirmationName(name)
     /\ Len(RulesOf(local, call.name)) = 1
     /\ RulesOf(local, call.name)[1].kind = "Confirmation")
        => (IsErrors(Get(response, call.name))
               <=> getValuesByName(call.name)
                      /= getValuesByName(RulesOf(local, call.name)[1].orig))

\* the validation is a length whose minimum and maximum are the same number
EqualBounds(v) == v.kind = "Length" /\ v.minimum = v.maximum /\ v.minimum /= None

\* C25: when the local validations that a Validate has evaluated are
\* lengths with equal bounds, the entry of the name holds, for a value whose
\* length is not the bound, the wrong-length message of each of them and
\* nothing else, and is no list of errors for a value whose length is the
\* bound.
C25_EqualBoundsWrongLength ==
    (/\ call.op = "Name" /\ ~call.defer
     /\ evals /= <<>>
     /\ \A i \in DOMAIN evals : evals[i].name = call.name /\ EqualBounds(RuleOf(evals[i])))
        => LET len == Len(dom[call.name][1])
               wrong == SelectSeq(evals, LAMBDA e : RuleOf(e).minimum /= len)
           IN  IF wrong /= <<>>
               THEN Get(response, call.name) =
                        Arr([i \in DOMAIN wrong |->
                                "is the wrong length (should be "
                                    \o ToString(RuleOf(wrong[i]).minimum) \o " characters)"])
               ELSE ~IsErrors(Get(response, call.name))

\* C25: a Validate has evaluated two lengths with equal bounds, given by is
\* and by within, for a value that is shorter than the bound
C25_Witness ==
    /\ call.op = "Name" /\ ~call.defer /\ call.name = "login"
    /\ dom["login"] = <<"">>
    /\ Len(evals) = 2
    /\ \A i \in DOMAIN evals : EqualBounds(RuleOf(evals[i])) /\ RuleOf(evals[i]).minimum = 2
    /\ IsErrors(Get(response, "login"))

\* a guard of the validation holds: the value is blank and allowBlank is
\* set, the value is empty and allowNull is set, the "if" condition fails,
\* the unless condition succeeds
Guarded(v, name, value) ==
    \/ v.allowBlank /\ RegexBlank(value)
    \/ v.allowNull /\ LooseEmpty(value)
    \/ v.if /= "none" /\ ~Truthy(Cond(v.if, name))
    \/ v.unless /= "none" /\ Truthy(Cond(v.unless, name))

\* C26: no call evaluates a local validation one of whose guards holds.
C26_GuardedRuleSkipped ==
    \A i \in DOMAIN evals :
        ~Guarded(RuleOf(evals[i]), evals[i].name, getValuesByName(evals[i].name))

\* C27: every Effect created by the ready-state events of a request is for a
\* name of the queue the request was made from, or of the response body.
C27_ReportsOnlyOwnBatch ==
    \A r \in DOMAIN xhr :
        \A i \in DOMAIN xhr[r].log :
            \/ \E j \in DOMAIN xhr[r].batch : xhr[r].batch[j] = xhr[r].log[i].name
            \/ \E j \in DOMAIN xhr[r].json : xhr[r].json[j].k = xhr[r].log[i].name

\* C28: after a deferred Validate on a name that has a value and local
\* validations only, the entry of the name is the one a single call gives
\* for the value: the messages of the validations that fail, or the valid
\* message.
C28_DeferredEntryIsFresh ==
    (/\ call.op = "Name" /\ call.defer
     /\ OnlyLocal(call.name)
     /\ getValuesByName(call.name) /= Undef)
        => Get(response, call.name) = Fresh(call.name)
====
